---- MODULE Spec2Model ----
(***************************************************************************)
(* Model of the Kontent source plugin                                      *)
(* (src/plugins/gatsby-source-kontent-rs/gatsby-node.js): sourceNodes, its *)
(* two phases handleTypeCreation and handleNodeCreation, and the pure      *)
(* functions createBaseTypes, createTypeDef and createItemNode with the    *)
(* naming helpers built on the change-case library.                        *)
(*                                                                         *)
(* A JavaScript string that the code transforms (a codename, an element    *)
(* kind, a property name) is a sequence of one-character strings; a name   *)
(* the code hands to the host is rendered to a TLA+ string.                *)
(***************************************************************************)
EXTENDS Integers, Sequences, FiniteSets, TLC

VARIABLES pc, types, items, linkedItems, calls, arg, res

vars == <<pc, types, items, linkedItems, calls, arg, res>>

(***************************************************************************)
(* Bounds of the model.                                                    *)
(***************************************************************************)
\* content types in the types response of a full run
MaxTypes == 1
\* content types in the types response when handleTypeCreation is run alone
MaxDefs == 3
\* root items plus linked items in the items response
MaxItems == 4

(***************************************************************************)
(* Characters and strings.                                                 *)
(***************************************************************************)
\* the upper-case letter of each lower-case letter, and the converse
UpperOf ==
  [a |-> "A", b |-> "B", c |-> "C", d |-> "D", e |-> "E", f |-> "F", g |-> "G",
   h |-> "H", i |-> "I", j |-> "J", k |-> "K", l |-> "L", m |-> "M", n |-> "N",
   o |-> "O", p |-> "P", q |-> "Q", r |-> "R", s |-> "S", t |-> "T", u |-> "U",
   v |-> "V", w |-> "W", x |-> "X", y |-> "Y", z |-> "Z"]

LowerOf ==
  [A |-> "a", B |-> "b", C |-> "c", D |-> "d", E |-> "e", F |-> "f", G |-> "g",
   H |-> "h", I |-> "i", J |-> "j", K |-> "k", L |-> "l", M |-> "m", N |-> "n",
   O |-> "o", P |-> "p", Q |-> "q", R |-> "r", S |-> "s", T |-> "t", U |-> "u",
   V |-> "v", W |-> "w", X |-> "x", Y |-> "y", Z |-> "z"]

DigitChars == {"0","1","2","3","4","5","6","7","8","9"}

IsLower(c) == c \in DOMAIN UpperOf
IsUpper(c) == c \in DOMAIN LowerOf
IsDigit(c) == c \in DigitChars
IsWordChar(c) == IsLower(c) \/ IsUpper(c) \/ IsDigit(c)

ToLower(c) == IF IsUpper(c) THEN LowerOf[c] ELSE c

ToUpper(c) == IF IsLower(c) THEN UpperOf[c] ELSE c

\* the JavaScript string made of the characters of s
RECURSIVE Render(_)
Render(s) == IF s = <<>> THEN "" ELSE Head(s) \o Render(Tail(s))

(***************************************************************************)
(* change-case.  noCase splits a string into lower-case words: at every    *)
(* run of non-alphanumeric characters, between a lower-case letter or      *)
(* digit and an upper-case letter, and before the last capital of a run of *)
(* capitals that a lower-case letter follows.                              *)
(***************************************************************************)
CamelBoundary(s, i) ==
  /\ i > 1
  /\ IsUpper(s[i])
  /\ \/ IsLower(s[i-1]) \/ IsDigit(s[i-1])
     \/ IsUpper(s[i-1]) /\ i < Len(s) /\ IsLower(s[i+1])

RECURSIVE SplitWords(_, _, _, _)
SplitWords(s, i, cur, out) ==
  IF i > Len(s)
  THEN IF cur = <<>> THEN out ELSE Append(out, cur)
  ELSE IF ~IsWordChar(s[i])
       THEN SplitWords(s, i + 1, <<>>, IF cur = <<>> THEN out ELSE Append(out, cur))
       ELSE IF CamelBoundary(s, i) /\ cur # <<>>
            THEN SplitWords(s, i + 1, <<ToLower(s[i])>>, Append(out, cur))
            ELSE SplitWords(s, i + 1, Append(cur, ToLower(s[i])), out)

NoCaseWords(s) == SplitWords(s, 1, <<>>, <<>>)

RECURSIVE JoinWith(_, _)
JoinWith(ws, sep) ==
  IF ws = <<>> THEN <<>>
  ELSE IF Len(ws) = 1 THEN ws[1]
  ELSE ws[1] \o sep \o JoinWith(Tail(ws), sep)

\* a word after the first: capitalised, or prefixed by "_" when it starts
\* with a digit
CamelWord(w) ==
  IF IsDigit(w[1]) THEN <<"_">> \o w ELSE <<ToUpper(w[1])>> \o Tail(w)

RECURSIVE CamelTail(_)
CamelTail(ws) ==
  IF ws = <<>> THEN <<>> ELSE CamelWord(ws[1]) \o CamelTail(Tail(ws))

camelCase(s) ==
  LET ws == NoCaseWords(s)
  IN  IF ws = <<>> THEN <<>> ELSE ws[1] \o CamelTail(Tail(ws))

pascalCase(s) ==
  LET c == camelCase(s)
  IN  IF c = <<>> THEN <<>> ELSE <<ToUpper(c[1])>> \o Tail(c)

paramCase(s) == JoinWith(NoCaseWords(s), <<"-">>)

(***************************************************************************)
(* Naming helpers of the plugin.                                           *)
(***************************************************************************)
\* a scalar for every kind but text
getElementValueTypeScalar(elementType) ==
  IF elementType = <<"t","e","x","t">> THEN "KontentTextElement" ELSE "String"

getElementValueType(elementType) ==
  "Kontent" \o Render(pascalCase(elementType)) \o "Element"

getGraphFieldName(elementName) == Render(camelCase(elementName))

getGraphTypeName(typeName) == "KontentItem" \o Render(pascalCase(typeName))

(***************************************************************************)
(* String literals of the code and of the inputs.                          *)
(***************************************************************************)
MODULAR_CONTENT == <<"m","o","d","u","l","a","r","_","c","o","n","t","e","n","t">>
RICH_TEXT == <<"r","i","c","h","_","t","e","x","t">>
TEXT == <<"t","e","x","t">>
NUMBER == <<"n","u","m","b","e","r">>
DATE_TIME == <<"d","a","t","e","_","t","i","m","e">>
ASSET == <<"a","s","s","e","t">>
TAXONOMY == <<"t","a","x","o","n","o","m","y">>
MULTIPLE_CHOICE == <<"m","u","l","t","i","p","l","e","_","c","h","o","i","c","e">>
URL_SLUG == <<"u","r","l","_","s","l","u","g">>
NEW_KIND_V2 == <<"n","e","w","_","k","i","n","d","_","v","2">>

SYSTEM == <<"s","y","s","t","e","m">>

(***************************************************************************)
(* createBaseTypes: the declarations of the SDL text, in its order.        *)
(***************************************************************************)
BaseDecl(kind, name, implements, fields) ==
  [kind |-> kind, name |-> name, implements |-> implements, fields |-> fields]

ElementHead == << <<"name", "String!">>, <<"type", "String!">> >>

createBaseTypes ==
  << BaseDecl("interface", "KontentItem", {},
       << <<"id", "ID!">>, <<"system", "KontentItemSystem!">> >>),
     BaseDecl("interface", "KontentElement", {}, ElementHead),
     BaseDecl("type", "KontentItemSystem", {},
       << <<"codename", "String!">>, <<"id", "String!">>,
          <<"language", "String!">>, <<"lastModified", "Date!">>,
          <<"name", "String!">>, <<"type", "String!">> >>),
     BaseDecl("type", "KontentAsset", {},
       << <<"name", "String!">>, <<"description", "String">>,
          <<"type", "String!">>, <<"size", "Int!">>, <<"url", "String!">>,
          <<"width", "Int!">>, <<"height", "Int!">> >>),
     BaseDecl("type", "KontentAssetElement", {"KontentElement"},
       ElementHead \o << <<"value", "[KontentAsset]">> >>),
     BaseDecl("type", "KontentDateTimeElement", {"KontentElement"},
       ElementHead \o << <<"value", "Date">> >>),
     BaseDecl("type", "KontentModularContentElement", {"KontentElement"},
       ElementHead \o << <<"value", "[KontentItem]">> >>),
     BaseDecl("type", "KontentMultipleChoiceElement", {"KontentElement"},
       ElementHead),
     BaseDecl("type", "KontentNumberElement", {"KontentElement"},
       ElementHead \o << <<"value", "Float">> >>),
     BaseDecl("type", "KontentRichTextElement", {"KontentElement"},
       ElementHead \o << <<"value", "String">>,
          <<"images", "[KontentRichTextImage]">>,
          <<"links", "[KontentRichTextLink]">>,
          <<"linkedItems", "[KontentItem]">> >>),
     BaseDecl("type", "KontentRichTextImage", {},
       << <<"description", "String">>, <<"height", "Int!">>,
          <<"imageId", "String!">>, <<"url", "String!">>,
          <<"width", "Int!">> >>),
     BaseDecl("type", "KontentRichTextLink", {},
       << <<"codename", "String!">>, <<"linkId", "String!">>,
          <<"type", "String!">>, <<"urlSlug", "String!">> >>),
     BaseDecl("type", "KontentTaxonomyElement", {"KontentElement"},
       ElementHead \o << <<"taxonomyGroup", "String!">>,
          <<"value", "[KontentTaxonomyItem]">> >>),
     BaseDecl("type", "KontentTaxonomyItem", {},
       << <<"name", "String!">>, <<"codename", "String!">> >>),
     BaseDecl("type", "KontentTextElement", {"KontentElement"},
       ElementHead \o << <<"value", "String">> >>),
     BaseDecl("type", "KontentUrlSlugElement", {"KontentElement"},
       ElementHead \o << <<"value", "String">> >>) >>

(***************************************************************************)
(* createTypeDef.  A content type is a record with system.codename and,    *)
(* unless the response is malformed, elements: a sequence of records       *)
(* [codename, type].  type.elements.reduce throws on a missing elements    *)
(* list.                                                                   *)
(***************************************************************************)
TypeDefThrows(type) == "elements" \notin DOMAIN type

\* Object.assign(acc, {[fieldName]: value}): a later write replaces an earlier
Assign(acc, fieldName, value) ==
  [f \in DOMAIN acc \cup {fieldName} |-> IF f = fieldName THEN value ELSE acc[f]]

EmptyObject == [f \in {} |-> {}]

RECURSIVE ElementFields(_, _)
ElementFields(elements, acc) ==
  IF elements = <<>> THEN acc
  ELSE ElementFields(Tail(elements),
         Assign(acc, getGraphFieldName(Head(elements).codename),
                [type |-> getElementValueType(Head(elements).type)]))

createTypeDef(type) ==
  LET elementFields == ElementFields(type.elements, EmptyObject)
      elementsTypeDef ==
        [name |-> getGraphTypeName(type.system.codename) \o "Elements",
         fields |-> elementFields,
         infer |-> FALSE]
      typeDef ==
        [name |-> getGraphTypeName(type.system.codename),
         fields |-> [system |-> "KontentItemSystem!",
                     elements |-> getGraphTypeName(type.system.codename) \o "Elements"],
         interfaces |-> <<"Node", "KontentItem">>,
         infer |-> FALSE]
  IN  <<elementsTypeDef, typeDef>>

(***************************************************************************)
(* Content items.  An item is its own properties in Object.keys order: a   *)
(* sequence of entries [key, val] with distinct keys, each val an object.  *)
(* An object is a function from property names; its "type" property, when  *)
(* present, is a string (a sequence of characters) and every other         *)
(* property is a tagged value [t, v]: a string, a list, an object payload, *)
(* a Date, null or undefined.                                              *)
(***************************************************************************)
StringValue(v) == [t |-> "string", v |-> v]
ListValue(v) == [t |-> "list", v |-> v]
ObjectValue(v) == [t |-> "object", v |-> v]
DateValue(iso) == [t |-> "date", v |-> iso]
Undefined == [t |-> "undefined", v |-> ""]

\* obj[name], undefined when the object has no such property
Prop(obj, name) == IF name \in DOMAIN obj THEN obj[name] ELSE Undefined

\* delete obj[name]
Delete(obj, name) == [f \in DOMAIN obj \ {name} |-> obj[f]]

HasKey(item, key) == \E i \in 1..Len(item) : item[i].key = key

ItemGet(item, key) == item[CHOOSE i \in 1..Len(item) : item[i].key = key].val

\* JSON.parse(JSON.stringify(value)) of a tagged value: a Date becomes its
\* ISO string, everything else of the model is kept
JsonValue(value) ==
  IF value.t = "date" THEN StringValue(value.v) ELSE value

\* JSON.parse(JSON.stringify(obj)): properties holding undefined are dropped
JsonObject(obj) ==
  [f \in {g \in DOMAIN obj : g = "type" \/ obj[g].t # "undefined"} |->
     IF f = "type" THEN obj[f] ELSE JsonValue(obj[f])]

(***************************************************************************)
(* createItemNode.                                                         *)
(***************************************************************************)
\* key => item[key] && item[key].type
IsElementProperty(val) == "type" \in DOMAIN val /\ val.type # <<>>

RECURSIVE ElementPropertyKeys(_)
ElementPropertyKeys(item) ==
  IF item = <<>> THEN <<>>
  ELSE (IF IsElementProperty(Head(item).val) THEN <<Head(item)>> ELSE <<>>)
       \o ElementPropertyKeys(Tail(item))

\* the branch on elementValue.type with the raw data field kept
FieldValueKeepingRawData(elementValue) ==
  IF elementValue.type = MODULAR_CONTENT
  THEN [name |-> Prop(elementValue, "name"),
        type |-> elementValue.type,
        value |-> Prop(elementValue, "itemCodenames")]
  ELSE IF elementValue.type = RICH_TEXT
  THEN [images |-> Prop(elementValue, "images"),
        linkedItems |-> Prop(elementValue, "linkedItemCodenames"),
        links |-> Prop(elementValue, "links"),
        name |-> Prop(elementValue, "name"),
        type |-> elementValue.type,
        value |-> Prop(elementValue, "value")]
  ELSE elementValue

\* the branch on elementValue.type, then delete fieldValue.rawData
FieldValue(elementValue) ==
  IF elementValue.type = MODULAR_CONTENT
  THEN [name |-> Prop(elementValue, "name"),
        type |-> elementValue.type,
        value |-> Prop(elementValue, "itemCodenames")]
  ELSE IF elementValue.type = RICH_TEXT
  THEN [images |-> Prop(elementValue, "images"),
        linkedItems |-> Prop(elementValue, "linkedItemCodenames"),
        links |-> Prop(elementValue, "links"),
        name |-> Prop(elementValue, "name"),
        type |-> elementValue.type,
        value |-> Prop(elementValue, "value")]
  ELSE Delete(elementValue, "rawData")

RECURSIVE ItemElements(_, _)
ItemElements(entries, acc) ==
  IF entries = <<>> THEN acc
  ELSE ItemElements(Tail(entries),
         Assign(acc, getGraphFieldName(Head(entries).key),
                FieldValue(Head(entries).val)))

\* nodeData = JSON.parse(JSON.stringify({system: item.system, elements}))
NodeData(item) ==
  LET elements == ItemElements(ElementPropertyKeys(item), EmptyObject)
      plain == [f \in DOMAIN elements |-> JsonObject(elements[f])]
  IN  IF HasKey(item, SYSTEM)
      THEN [system |-> JsonObject(ItemGet(item, SYSTEM)), elements |-> plain]
      ELSE [elements |-> plain]

\* the argument change-case gets for system.type: undefined reads as ''
\* in a build whose change-case accepts it
TypeOf(system) == IF "type" \in DOMAIN system THEN system.type ELSE <<>>

\* `${changeCase.paramCase(item.system.type)}-${item.system.id}`
getNodeIdValue(nodeData) ==
  Render(paramCase(TypeOf(nodeData.system))) \o "-" \o
  (IF "id" \in DOMAIN nodeData.system THEN nodeData.system.id.v ELSE "undefined")

\* the host's functions, deterministic in their argument
createNodeId(value) == "nodeId(" \o value \o ")"
createContentDigest(data) == [digestOf |-> data]

\* what createItemNode does with a node: it returns it, or it throws
Returned(node) == [threw |-> FALSE, node |-> node]
Thrown == [threw |-> TRUE]

\* createItemNode with the digest taken of the data before the JSON round trip
createItemNodeDigestOfRaw(item, nullSafe) ==
  LET nodeData == NodeData(item)
  IN  IF "system" \notin DOMAIN nodeData THEN Thrown
      ELSE IF ~nullSafe /\ "type" \notin DOMAIN nodeData.system THEN Thrown
      ELSE Returned(
             [system |-> nodeData.system,
              elements |-> nodeData.elements,
              id |-> createNodeId(getNodeIdValue(nodeData)),
              parent |-> "null",
              children |-> <<>>,
              internal |->
                [type |-> getGraphTypeName(TypeOf(nodeData.system)),
                 mediaType |-> "text/html",
                 contentDigest |->
                   createContentDigest(
                     [system |-> ItemGet(item, SYSTEM),
                      elements |-> ItemElements(ElementPropertyKeys(item),
                                                EmptyObject)])]])

\* createItemNode throws in getNodeIdValue when nodeData.system is undefined,
\* and when system.type is undefined in a build whose change-case rejects
\* undefined (nullSafe = FALSE)
createItemNode(item, nullSafe) ==
  LET nodeData == NodeData(item)
  IN  IF "system" \notin DOMAIN nodeData THEN Thrown
      ELSE IF ~nullSafe /\ "type" \notin DOMAIN nodeData.system THEN Thrown
      ELSE LET nodeMeta ==
                 [id |-> createNodeId(getNodeIdValue(nodeData)),
                  parent |-> "null",
                  children |-> <<>>,
                  internal |->
                    [type |-> getGraphTypeName(TypeOf(nodeData.system)),
                     mediaType |-> "text/html",
                     contentDigest |-> createContentDigest(nodeData)]]
           IN  Returned([system |-> nodeData.system,
                         elements |-> nodeData.elements,
                         id |-> nodeMeta.id,
                         parent |-> nodeMeta.parent,
                         children |-> nodeMeta.children,
                         internal |-> nodeMeta.internal])

(***************************************************************************)
(* unionBy(response.items, response.linkedItems, 'system.codename'): the   *)
(* two lists flattened, an entry kept when no earlier entry has its key.   *)
(***************************************************************************)
CodenameOf(item) ==
  IF HasKey(item, SYSTEM) THEN Prop(ItemGet(item, SYSTEM), "codename")
  ELSE Undefined

RECURSIVE UniqBy(_, _)
UniqBy(list, seen) ==
  IF list = <<>> THEN <<>>
  ELSE IF CodenameOf(Head(list)) \in seen
       THEN UniqBy(Tail(list), seen)
       ELSE <<Head(list)>> \o UniqBy(Tail(list), seen \cup {CodenameOf(Head(list))})

\* the two lists joined with no entry removed
unionByConcat(first, second) == first \o second

unionBy(first, second) == UniqBy(first \o second, {})

(***************************************************************************)
(* Inputs: the content types and items the CMS client may return.          *)
(***************************************************************************)
BLOG_POST == <<"b","l","o","g","_","p","o","s","t">>
ARTICLE == <<"a","r","t","i","c","l","e">>
WIDGET == <<"w","i","d","g","e","t">>
EMPTY_TYPE == <<"e","m","p","t","y","_","t","y","p","e">>
TITLE == <<"t","i","t","l","e">>
PUBLISHED == <<"p","u","b","l","i","s","h","e","d">>
RELATED_POSTS == <<"r","e","l","a","t","e","d","_","p","o","s","t","s">>
BODY_COPY == <<"b","o","d","y","_","c","o","p","y">>
BODY_COPY_CAMEL == <<"b","o","d","y","C","o","p","y">>
HERO == <<"h","e","r","o">>
PRICE == <<"p","r","i","c","e">>
TOPICS == <<"t","o","p","i","c","s">>
OPTIONS == <<"o","p","t","i","o","n","s">>
SLUG == <<"s","l","u","g">>
THING == <<"t","h","i","n","g">>
RAW == <<"_","r","a","w">>

ElementDef(codename, kind) == [codename |-> codename, type |-> kind]

TypeBlogPost ==
  [system |-> [codename |-> BLOG_POST],
   elements |-> <<ElementDef(TITLE, TEXT)>>]

\* every kind of the catalog, and two codenames with one field name
TypeArticle ==
  [system |-> [codename |-> ARTICLE],
   elements |->
     <<ElementDef(TITLE, TEXT), ElementDef(BODY_COPY, RICH_TEXT),
       ElementDef(PUBLISHED, DATE_TIME), ElementDef(HERO, ASSET),
       ElementDef(PRICE, NUMBER), ElementDef(RELATED_POSTS, MODULAR_CONTENT),
       ElementDef(TOPICS, TAXONOMY), ElementDef(OPTIONS, MULTIPLE_CHOICE),
       ElementDef(SLUG, URL_SLUG), ElementDef(BODY_COPY_CAMEL, TEXT)>>]

TypeWidget ==
  [system |-> [codename |-> WIDGET],
   elements |-> <<ElementDef(TITLE, TEXT), ElementDef(THING, NEW_KIND_V2)>>]

TypeEmpty == [system |-> [codename |-> EMPTY_TYPE], elements |-> <<>>]

\* a malformed response entry: no elements list
TypeMalformed == [system |-> [codename |-> ARTICLE]]

TypeDefs == {TypeBlogPost, TypeArticle, TypeWidget, TypeEmpty, TypeMalformed}

RunTypeDefs == {TypeWidget, TypeMalformed}

\* createTypeDef over the content types of the model that have elements
TypeDeclarations ==
  [type \in {t \in TypeDefs : ~TypeDefThrows(t)} |-> createTypeDef(type)] @@ <<>>

\* response.types.reduce((acc, type) => acc.concat(createTypeDef(schema, type)), [])
RECURSIVE TypeDefBatch(_)
TypeDefBatch(ts) ==
  IF ts = <<>> THEN <<>> ELSE TypeDeclarations[Head(ts)] \o TypeDefBatch(Tail(ts))

\* the sequences over S of length at most n
SeqsUpTo(S, n) == UNION {[1..k -> S] : k \in 0..n}

LastModified == "2019-10-01T00:00:00.000Z"

System(codename, type, id) ==
  [codename |-> StringValue(codename), id |-> StringValue(id), type |-> type,
   lastModified |-> DateValue(LastModified)]

Entry(key, val) == [key |-> key, val |-> val]

TextElement(value) ==
  [name |-> StringValue("Title"), type |-> TEXT, value |-> StringValue(value),
   rawData |-> ObjectValue("raw title")]

DateTimeElement ==
  [name |-> StringValue("Published"), type |-> DATE_TIME,
   value |-> DateValue("2019-11-05T10:00:00.000Z"),
   rawData |-> ObjectValue("raw published")]

\* value holds the resolved items, itemCodenames their codenames
LinkedItemsElement(resolved) ==
  [name |-> StringValue("Related posts"), type |-> MODULAR_CONTENT,
   value |-> ObjectValue(resolved), itemCodenames |-> ListValue("[c1, c2]"),
   rawData |-> ObjectValue("raw related")]

RichTextElement ==
  [name |-> StringValue("Body copy"), type |-> RICH_TEXT,
   value |-> StringValue("<p>hi</p>"), images |-> ListValue("[]"),
   links |-> ListValue("[]"), linkedItemCodenames |-> ListValue("[c1]"),
   linkedItems |-> ObjectValue("resolved c1"),
   rawData |-> ObjectValue("raw body")]

UnknownElement ==
  [name |-> StringValue("Thing"), type |-> NEW_KIND_V2,
   value |-> StringValue("v"), rawData |-> ObjectValue("raw thing")]

\* the item's raw response, a property that is no element
RawProperty == [system |-> ObjectValue("raw system"), elements |-> ObjectValue("raw elements")]

\* the items of a full run
ItemA == <<Entry(SYSTEM, System("a", BLOG_POST, "1")), Entry(TITLE, TextElement("A"))>>
ItemB == <<Entry(SYSTEM, System("b", BLOG_POST, "2")), Entry(TITLE, TextElement("B"))>>
ItemBLinked ==
  <<Entry(SYSTEM, System("b", BLOG_POST, "2")), Entry(TITLE, TextElement("B as linked"))>>
\* an item with the type and id of ItemA under another codename
ItemC == <<Entry(SYSTEM, System("c", BLOG_POST, "1")), Entry(TITLE, TextElement("C"))>>
ItemNoId ==
  <<Entry(SYSTEM, Delete(System("e", BLOG_POST, "5"), "id")), Entry(TITLE, TextElement("E"))>>
ItemNoType ==
  <<Entry(SYSTEM, Delete(System("f", BLOG_POST, "6"), "type")), Entry(TITLE, TextElement("F"))>>

RunItems == {ItemA, ItemB, ItemBLinked, ItemC, ItemNoId, ItemNoType}

\* the items createItemNode is applied to on its own
ProjSystems ==
  { <<Entry(SYSTEM, System("a", BLOG_POST, "1"))>>,
    <<Entry(SYSTEM, [System("a", BLOG_POST, "1") EXCEPT !.lastModified = StringValue(LastModified)])>>,
    <<Entry(SYSTEM, System("b", BLOG_POST, "1"))>>,
    <<Entry(SYSTEM, Delete(System("a", BLOG_POST, "1"), "id"))>>,
    <<Entry(SYSTEM, Delete(System("a", BLOG_POST, "1"), "type"))>>,
    <<>> }

ProjElements ==
  { <<Entry(TITLE, TextElement("hello"))>>,
    <<Entry(TITLE, Delete(TextElement("hello"), "rawData"))>>,
    <<Entry(PUBLISHED, DateTimeElement)>>,
    <<Entry(RELATED_POSTS, LinkedItemsElement("resolved c1, c2"))>>,
    <<Entry(RELATED_POSTS, LinkedItemsElement("resolved c1, c2 again"))>>,
    <<Entry(BODY_COPY, RichTextElement)>>,
    <<Entry(THING, UnknownElement)>>,
    <<Entry(RAW, RawProperty), Entry(TITLE, TextElement("hello"))>>,
    <<Entry(BODY_COPY, RichTextElement), Entry(BODY_COPY_CAMEL, TextElement("copy"))>>,
    <<Entry(TITLE, TextElement("hello")), Entry(PUBLISHED, DateTimeElement),
      Entry(RELATED_POSTS, LinkedItemsElement("resolved c1, c2")),
      Entry(BODY_COPY, RichTextElement)>> }

ProjItems == {s \o e : s \in ProjSystems, e \in ProjElements}

\* createItemNode over the items of the model, in both builds
ItemNodes ==
  [item \in RunItems \cup ProjItems, nullSafe \in BOOLEAN |->
     createItemNode(item, nullSafe)] @@ <<>>

\* allItems.forEach(item => createNode(createItemNode(...))): the createNode
\* calls made until an item throws
RECURSIVE NodeCalls(_, _)
NodeCalls(allItems, nullSafe) ==
  IF allItems = <<>> \/ ItemNodes[Head(allItems), nullSafe].threw THEN <<>>
  ELSE <<[op |-> "createNode", node |-> ItemNodes[Head(allItems), nullSafe].node]>>
       \o NodeCalls(Tail(allItems), nullSafe)

ForEachThrows(allItems, nullSafe) ==
  \E i \in 1..Len(allItems) : ItemNodes[allItems[i], nullSafe].threw

(***************************************************************************)
(* sourceNodes.  The steps of a run are the synchronous stretches between  *)
(* its awaits; calls is the log of the calls made to the host.             *)
(***************************************************************************)
Init ==
  /\ pc = "init"
  /\ types = <<>>
  /\ items = <<>>
  /\ linkedItems = <<>>
  /\ calls = <<>>
  /\ arg = <<>>
  /\ res = <<>>

\* sourceNodes with the call of handleTypeCreation left out
StartWithoutTypeCreation ==
  /\ pc = "init"
  /\ pc' = "awaitItems"
  /\ UNCHANGED <<types, items, linkedItems, calls, arg, res>>

\* sourceNodes up to the await in handleTypeCreation
Start ==
  /\ pc = "init"
  /\ calls' = Append(calls, [op |-> "createTypes", typeDefs |-> createBaseTypes])
  /\ pc' = "awaitTypes"
  /\ UNCHANGED <<types, items, linkedItems, arg, res>>

\* client.types() resolves: the rest of handleTypeCreation, then
\* handleNodeCreation up to its await
TypesResolved(response) ==
  /\ pc = "awaitTypes"
  /\ types' = response
  /\ IF \E i \in 1..Len(response) : TypeDefThrows(response[i])
     THEN pc' = "rejected" /\ UNCHANGED calls
     ELSE /\ calls' = Append(calls, [op |-> "createTypes",
                                     typeDefs |-> TypeDefBatch(response)])
          /\ pc' = "awaitItems"
  /\ UNCHANGED <<items, linkedItems, arg, res>>

\* client.types() rejects
TypesRejected ==
  /\ pc = "awaitTypes"
  /\ pc' = "rejected"
  /\ UNCHANGED <<types, items, linkedItems, calls, arg, res>>

\* client.items() resolves: the rest of handleNodeCreation
ItemsResolved(responseItems, responseLinkedItems, nullSafe) ==
  /\ pc = "awaitItems"
  /\ items' = responseItems
  /\ linkedItems' = responseLinkedItems
  /\ LET allItems == unionBy(responseItems, responseLinkedItems)
     IN  /\ calls' = calls \o NodeCalls(allItems, nullSafe)
         /\ pc' = IF ForEachThrows(allItems, nullSafe) THEN "rejected" ELSE "resolved"
  /\ UNCHANGED <<types, arg, res>>

\* client.items() rejects
ItemsRejected ==
  /\ pc = "awaitItems"
  /\ pc' = "rejected"
  /\ UNCHANGED <<types, items, linkedItems, calls, arg, res>>

Next ==
  \/ Start
  \/ /\ pc = "awaitTypes"
     /\ \E response \in SeqsUpTo(RunTypeDefs, MaxTypes) : TypesResolved(response)
  \/ TypesRejected
  \/ /\ pc = "awaitItems"
     /\ \E all \in SeqsUpTo(RunItems, MaxItems), nullSafe \in BOOLEAN :
          \E k \in 0..Len(all) :
            ItemsResolved(SubSeq(all, 1, k), SubSeq(all, k + 1, Len(all)), nullSafe)
  \/ ItemsRejected

Spec == Init /\ [][Next]_vars

(***************************************************************************)
(* handleTypeCreation alone, over the full set of content types.           *)
(***************************************************************************)
NextTypes ==
  \/ Start
  \/ /\ pc = "awaitTypes"
     /\ \E response \in SeqsUpTo(TypeDefs, MaxDefs) : TypesResolved(response)
  \/ TypesRejected

SpecTypes == Init /\ [][NextTypes]_vars

(***************************************************************************)
(* createItemNode alone: arg is a pair of items, res[i] the outcome of     *)
(* createItemNode(arg[i]).  The two calls come in either order.            *)
(***************************************************************************)
InitItem ==
  /\ pc = "createItemNode"
  /\ types = <<>>
  /\ items = <<>>
  /\ linkedItems = <<>>
  /\ calls = <<>>
  /\ arg \in ProjItems \X ProjItems
  /\ res = <<>>

Project(i, nullSafe) ==
  /\ pc = "createItemNode"
  /\ i \notin DOMAIN res
  /\ res' = [j \in DOMAIN res \cup {i} |->
               IF j # i THEN res[j]
               ELSE ItemNodes[arg[i], nullSafe]]
  /\ UNCHANGED <<pc, types, items, linkedItems, calls, arg>>

NextItem == \E i \in {1, 2}, nullSafe \in BOOLEAN : Project(i, nullSafe)

SpecItem == InitItem /\ [][NextItem]_vars

(***************************************************************************)
(* The claims.                                                             *)
(***************************************************************************)
\* the createNode calls of the log, in order
Created == SelectSeq(calls, LAMBDA c : c.op = "createNode")

\* C1: in every run of sourceNodes, every createNode call comes after both
\* createTypes calls: the base declarations, then the batch built from the
\* fetched content types.
C1_TypesRegisteredBeforeNodes ==
  LET nodeCalls == {i \in 1..Len(calls) : calls[i].op = "createNode"}
  IN  nodeCalls # {} =>
        \E j \in 1..Len(calls), k \in 1..Len(calls) :
          /\ j < k
          /\ \A i \in nodeCalls : k < i
          /\ calls[j].op = "createTypes"
          /\ calls[k].op = "createTypes"
          /\ calls[j].typeDefs = createBaseTypes
          /\ calls[k].typeDefs = TypeDefBatch(types)

\* a run with a content type that created several nodes and resolved
C1_Witness ==
  /\ pc = "resolved"
  /\ Len(types) >= 1
  /\ Len(Created) >= 2

\* C2: handleNodeCreation creates one node per distinct system.codename of
\* the root and linked items: the nodes are, in order, the projections of the
\* first occurrences (root items before linked items), all of them when the
\* run resolves and the ones before the first item that throws otherwise.
C2_OneNodePerCodename ==
  LET all == items \o linkedItems
      codenames == [i \in 1..Len(all) |-> CodenameOf(all[i])]
      kept == {i \in 1..Len(all) : \A j \in 1..(i - 1) : codenames[j] # codenames[i]}
      rank(i) == Cardinality({j \in kept : j <= i})
      created == Created
  IN  /\ Len(created) <= Cardinality(kept)
      /\ pc = "resolved" => Len(created) = Cardinality(kept)
      /\ \A i \in kept :
           rank(i) <= Len(created) =>
             LET node == created[rank(i)].node
             IN  /\ node.system.codename = ItemGet(all[i], SYSTEM).codename
                 /\ node.elements["title"].value = ItemGet(all[i], TITLE).value
                 /\ \E nullSafe \in BOOLEAN :
                      ItemNodes[all[i], nullSafe] = Returned(node)

\* roots [A, B] and linked [B, C] gave nodes for exactly a, b, c in that order
C2_Witness ==
  /\ pc = "resolved"
  /\ items = <<ItemA, ItemB>>
  /\ linkedItems = <<ItemBLinked, ItemC>>
  /\ Len(Created) = 3
  /\ Created[1].node.system.codename = StringValue("a")
  /\ Created[2].node.system.codename = StringValue("b")
  /\ Created[2].node.elements["title"].value = StringValue("B")
  /\ Created[3].node.system.codename = StringValue("c")

\* C3: the batch registered for N content types has 2N declarations, for each
\* content type [elements type, item type]: the elements type is named
\* toTypeName(codename) + "Elements" and has for each element the field
\* camelCase(codename) of type "Kontent" + PascalCase(kind) + "Element", the
\* later of two elements with one field name being kept; the item type is
\* named toTypeName(codename), has the fields system: KontentItemSystem! and
\* elements: <the elements type>, and implements Node and KontentItem.
C3_TwoDeclarationsPerType ==
  pc = "awaitItems" =>
    LET batch == calls[2].typeDefs
    IN  /\ calls[2].op = "createTypes"
        /\ Len(batch) = 2 * Len(types)
        /\ \A n \in 1..Len(types) :
             LET t == types[n]
                 E == batch[2 * n - 1]
                 T == batch[2 * n]
                 fieldOf(i) == getGraphFieldName(t.elements[i].codename)
             IN  /\ E.name = getGraphTypeName(t.system.codename) \o "Elements"
                 /\ "interfaces" \notin DOMAIN E
                 /\ DOMAIN E.fields = {fieldOf(i) : i \in 1..Len(t.elements)}
                 /\ \A i \in 1..Len(t.elements) :
                      (\A j \in (i + 1)..Len(t.elements) : fieldOf(j) # fieldOf(i)) =>
                        E.fields[fieldOf(i)] =
                          [type |-> "Kontent" \o Render(pascalCase(t.elements[i].type))
                                      \o "Element"]
                 /\ T.name = getGraphTypeName(t.system.codename)
                 /\ T.fields = [system |-> "KontentItemSystem!", elements |-> E.name]
                 /\ T.interfaces = <<"Node", "KontentItem">>
                 /\ t = TypeBlogPost =>
                      /\ E.name = "KontentItemBlogPostElements"
                      /\ E.fields = [title |-> [type |-> "KontentTextElement"]]
                      /\ T.name = "KontentItemBlogPost"
                 /\ t = TypeArticle =>
                      /\ E.fields["bodyCopy"] = [type |-> "KontentTextElement"]
                      /\ E.fields["relatedPosts"] =
                           [type |-> "KontentModularContentElement"]

\* the batch of blog_post and of a type with two elements of one field name
C3_Witness ==
  /\ pc = "awaitItems"
  /\ types = <<TypeBlogPost, TypeArticle>>
  /\ Len(calls[2].typeDefs) = 4

\* the names the registered schema declares
DeclaredNames ==
  UNION {{calls[i].typeDefs[n].name : n \in 1..Len(calls[i].typeDefs)} :
           i \in {c \in 1..Len(calls) : calls[c].op = "createTypes"}}

\* C4: every value type that a field of a generated elements type refers to
\* is a type the registered schema (base and generated declarations)
\* declares, also for an element kind outside the catalog.
C4_ValueTypesDeclared ==
  \A i \in {c \in 1..Len(calls) : calls[c].op = "createTypes"} :
    \A n \in 1..Len(calls[i].typeDefs) :
      LET d == calls[i].typeDefs[n]
      IN  ("infer" \in DOMAIN d /\ "interfaces" \notin DOMAIN d) =>
            \A f \in DOMAIN d.fields : d.fields[f].type \in DeclaredNames

\* the entries of an item that are elements: not its system record, not its
\* raw response
ElementEntries(item) ==
  {n \in 1..Len(item) : item[n].key \notin {SYSTEM, RAW}}

\* C5: the elements map of a node has an entry for exactly the item's element
\* properties, keyed by camelCase of the property name; the system record and
\* other metadata are no entry of it.
C5_ElementsAreElementProperties ==
  \A i \in DOMAIN res :
    ~res[i].threw =>
      DOMAIN res[i].node.elements =
        {getGraphFieldName(arg[i][n].key) : n \in ElementEntries(arg[i])}

\* the entry that Object.assign keeps for its field name
LastWriter(item, n) ==
  \A m \in ElementEntries(item) :
    m > n => getGraphFieldName(item[m].key) # getGraphFieldName(item[n].key)

NormalizedShape(el, out) ==
  /\ el.type = MODULAR_CONTENT =>
       out = [name |-> el.name, type |-> el.type, value |-> el.itemCodenames]
  /\ el.type = RICH_TEXT =>
       out = [images |-> el.images, linkedItems |-> el.linkedItemCodenames,
              links |-> el.links, name |-> el.name, type |-> el.type,
              value |-> el.value]

NoRawPayload(el, out) ==
  /\ "rawData" \notin DOMAIN out
  /\ el.type \in {MODULAR_CONTENT, RICH_TEXT} =>
       \A g \in DOMAIN out \ {"type"} : out[g].t # "object"

PassedThroughUnchanged(el, out) ==
  el.type \notin {MODULAR_CONTENT, RICH_TEXT} => out = Delete(el, "rawData")

PassedThroughAsJson(el, out) ==
  el.type \notin {MODULAR_CONTENT, RICH_TEXT} =>
    /\ DOMAIN out = DOMAIN el \ {"rawData"}
    /\ \A g \in DOMAIN out :
         out[g] = IF g # "type" /\ el[g].t = "date" THEN StringValue(el[g].v)
                  ELSE el[g]

\* C6 as amended: a modular_content element becomes exactly {name, type,
\* value = the linked item codenames}, a rich_text element exactly {name,
\* type, value, images, links, linkedItems = the linked item codenames}, and
\* an element of any other kind keeps its fields except rawData, with the
\* values the JSON round trip leaves: a Date becomes its ISO string.  No
\* emitted element has a rawData field or a pre-resolved item payload.
C6_ElementsNormalizedByKind ==
  \A i \in DOMAIN res :
    ~res[i].threw =>
      \A n \in ElementEntries(arg[i]) :
        LastWriter(arg[i], n) =>
          LET el == arg[i][n].val
              out == res[i].node.elements[getGraphFieldName(arg[i][n].key)]
          IN  /\ NormalizedShape(el, out)
              /\ NoRawPayload(el, out)
              /\ PassedThroughAsJson(el, out)

\* C6 as stated: an element of any other kind is passed through with its
\* fields unchanged.
C6_OtherKindsUnchanged ==
  \A i \in DOMAIN res :
    ~res[i].threw =>
      \A n \in ElementEntries(arg[i]) :
        LastWriter(arg[i], n) =>
          LET el == arg[i][n].val
              out == res[i].node.elements[getGraphFieldName(arg[i][n].key)]
          IN  /\ NormalizedShape(el, out)
              /\ NoRawPayload(el, out)
              /\ PassedThroughUnchanged(el, out)

\* an item with a text, a date_time, a modular_content and a rich_text
\* element was projected
C6_Witness ==
  \E i \in DOMAIN res :
    /\ ~res[i].threw
    /\ DOMAIN res[i].node.elements =
         {"system", "title", "published", "relatedPosts", "bodyCopy"}
    /\ res[i].node.elements["bodyCopy"].linkedItems = ListValue("[c1]")
    /\ res[i].node.elements["bodyCopy"].value = StringValue("<p>hi</p>")
    /\ res[i].node.elements["relatedPosts"].value = ListValue("[c1, c2]")
    /\ res[i].node.elements["published"].value.t = "string"

\* C7: a run that ends in failure has made no createTypes and no createNode
\* call.
C7_NoPartialSuccess == pc = "rejected" => calls = <<>>

\* C8: an item without system.type or without system.id fails the run: no
\* node is created for it, and a run that got one does not resolve.
C8_MissingIdentityIsFatal ==
  /\ \A n \in 1..Len(Created) :
       {"id", "type"} \subseteq DOMAIN Created[n].node.system
  /\ pc = "resolved" =>
       \A n \in 1..Len(items \o linkedItems) :
         {"id", "type"} \subseteq DOMAIN ItemGet((items \o linkedItems)[n], SYSTEM)

\* the statement "system.type is the same in both", undefined included
SameType(s1, s2) ==
  /\ ("type" \in DOMAIN s1) = ("type" \in DOMAIN s2)
  /\ "type" \in DOMAIN s1 => s1.type = s2.type

\* C9: the value given to createContentDigest is exactly {system, elements}
\* of the node; two items with the same normalized system and elements get
\* the same fingerprint, in either order of projection; the generated id
\* depends only on system.type and system.id.
C9_FingerprintOfNormalizedContent ==
  /\ \A i \in DOMAIN res :
       ~res[i].threw =>
         res[i].node.internal.contentDigest =
           createContentDigest([system |-> res[i].node.system,
                                elements |-> res[i].node.elements])
  /\ \A i \in DOMAIN res, j \in DOMAIN res :
       (~res[i].threw /\ ~res[j].threw) =>
         /\ (/\ res[i].node.system = res[j].node.system
             /\ res[i].node.elements = res[j].node.elements) =>
              res[i].node.internal.contentDigest = res[j].node.internal.contentDigest
         /\ (/\ SameType(ItemGet(arg[i], SYSTEM), ItemGet(arg[j], SYSTEM))
             /\ Prop(ItemGet(arg[i], SYSTEM), "id") = Prop(ItemGet(arg[j], SYSTEM), "id")) =>
              res[i].node.id = res[j].node.id

\* two different items with the same normalized content were both projected
C9_Witness ==
  /\ DOMAIN res = {1, 2}
  /\ ~res[1].threw /\ ~res[2].threw
  /\ arg[1] # arg[2]
  /\ res[1].node.system = res[2].node.system
  /\ res[1].node.elements = res[2].node.elements
  /\ res[1].node.internal.contentDigest = res[2].node.internal.contentDigest

\* C10: within one run no two createNode calls carry the same generated id.
C10_UniqueNodeIds ==
  \A m \in 1..Len(Created), n \in 1..Len(Created) :
    m # n => Created[m].node.id # Created[n].node.id

====
